---------------------------- MODULE Spec2Model ----------------------------
(***************************************************************************)
(* A model of the modal text editor of mikkurogue/smoke: the Editor of     *)
(* src/editor.rs (buffer, cursor, mode, key dispatch, the ':' command      *)
(* prompt and the save, render tick), the Cursor of src/cursor.rs (blink)  *)
(* and the run loop of src/main.rs.                                        *)
(*                                                                         *)
(* A Rust String is modelled as what it is: a sequence of UTF-8 bytes.     *)
(* len() counts bytes, and insert / remove / split_off panic when their    *)
(* index is not on a character boundary.  Sequences are 1-based here, so   *)
(* the byte at Rust index i is s[i + 1].                                   *)
(***************************************************************************)
EXTENDS Integers, Sequences, FiniteSets, TLC

(***************************************************************************)
(* Bounds of the model.                                                    *)
(***************************************************************************)
\* most lines the buffer holds
MaxLines == 3
\* most bytes the lines of the buffer hold together
MaxBytes == 3
\* the clock stops advancing here (milliseconds)
MaxTime == 900

(***************************************************************************)
(* Characters and their UTF-8 encoding.                                    *)
(***************************************************************************)
\* A character is its Unicode scalar value.  The characters the key
\* handlers name:
\* 'i'
CharI == 105
\* 'h'
CharH == 104
\* 'j'
CharJ == 106
\* 'k'
CharK == 107
\* 'l'
CharL == 108
\* '0'
CharZero == 48
\* '$'
CharDollar == 36
\* 'q'
CharQ == 113
\* ':'
CharColon == 58
\* 'c', which the run loop looks for with the Control modifier
CharC == 99
\* Text typed in Insert mode: 'a', 'q' and the two-byte 'e acute' (U+00E9)
TextChars == {97, 113, 233}
\* the bytes BufRead::lines strips: "\n" and the "\r" before it
NewLine == 10
CarriageReturn == 13

\* char::encode_utf8 for scalar values below 0x800
Utf8(c) ==
    IF c < 128 THEN <<c>> ELSE <<192 + (c \div 64), 128 + (c % 64)>>

\* width in bytes of the character whose first byte is b (1 and 2 byte forms)
Utf8Width(b) ==
    IF b < 128 THEN 1 ELSE 2

\* str::is_char_boundary(idx): 0 and len are boundaries, as is every byte
\* that is not a continuation byte 0x80..0xBF
IsCharBoundary(s, idx) ==
    \/ idx = 0
    \/ idx = Len(s)
    \/ /\ idx < Len(s)
       /\ (s[idx + 1] < 128 \/ s[idx + 1] >= 192)

\* std::str::from_utf8 restricted to 1 and 2 byte forms: every byte starts a
\* character or continues the two-byte character before it
IsUtf8(s) ==
    \A i \in 1..Len(s) :
        \/ s[i] < 128
        \/ /\ s[i] >= 192 /\ s[i] < 224
           /\ i < Len(s) /\ s[i + 1] >= 128 /\ s[i + 1] < 192
        \/ /\ s[i] >= 128 /\ s[i] < 192
           /\ i > 1 /\ s[i - 1] >= 192 /\ s[i - 1] < 224

(***************************************************************************)
(* String and Vec primitives.  Each returns [ok, val]: ok = FALSE is the   *)
(* panic of the Rust method, which leaves the receiver as it was.          *)
(***************************************************************************)
\* String::push
StringPush(s, c) == s \o Utf8(c)

\* String::insert(idx, ch): panics unless idx is a character boundary
StringInsert(s, idx, c) ==
    IF IsCharBoundary(s, idx)
    THEN [ok |-> TRUE,
          val |-> SubSeq(s, 1, idx) \o Utf8(c) \o SubSeq(s, idx + 1, Len(s))]
    ELSE [ok |-> FALSE, val |-> s]

\* String::remove(idx): panics when idx >= len or idx is no boundary;
\* removes the whole character that starts at byte idx
StringRemove(s, idx) ==
    IF idx < Len(s) /\ IsCharBoundary(s, idx)
    THEN [ok |-> TRUE,
          val |-> SubSeq(s, 1, idx)
                    \o SubSeq(s, idx + Utf8Width(s[idx + 1]) + 1, Len(s))]
    ELSE [ok |-> FALSE, val |-> s]

\* String::split_off(at): panics unless at is a character boundary;
\* head is what the receiver keeps, tail what is returned
StringSplitOff(s, at) ==
    IF IsCharBoundary(s, at)
    THEN [ok |-> TRUE, head |-> SubSeq(s, 1, at),
          tail |-> SubSeq(s, at + 1, Len(s))]
    ELSE [ok |-> FALSE, head |-> s, tail |-> <<>>]

\* Vec::insert(index, element), index <= len
VecInsert(v, index, e) ==
    SubSeq(v, 1, index) \o <<e>> \o SubSeq(v, index + 1, Len(v))

\* Vec::remove(index), index < len
VecRemove(v, index) ==
    SubSeq(v, 1, index) \o SubSeq(v, index + 2, Len(v))

(***************************************************************************)
(* State.                                                                  *)
(***************************************************************************)
VARIABLES
    buffer,       \* Editor.buffer: [buffer_text: the lines, each a byte
                  \* string; buffer_name: the path, empty when there is none]
    cursor,       \* Editor.cursor: [x, y, visible, last_blink]
    mode,         \* Editor.mode: "Normal" or "Insert"
    now,          \* the monotonic clock Instant::now() reads, in milliseconds
    key,          \* the key event handle_keypress handled last
    should_quit,  \* what handle_keypress returned last: the run loop's flag
    proc,         \* the process: "running", "panicked" (a handler panicked),
                  \* "failed" (render returned an error to the run loop)
                  \* or "exited" (std::process::exit)
    disk,         \* the file system: the bytes of the file under each path
    raw_mode,     \* the terminal is in raw mode
    messages,     \* what the last key step printed with println!
    input         \* what the last key step read from the terminal and got
                  \* from the file system

vars == <<buffer, cursor, mode, now, key, should_quit, proc,
          disk, raw_mode, messages, input>>

\* Duration::from_millis(400), the blink period of Cursor::new
BlinkInterval == 400
\* the run loop's poll timeout: the clock's step between two renders
PollTimeout == 16

(***************************************************************************)
(* Key events (crossterm KeyEvent): the KeyCode, with ch the character of  *)
(* a Char key, and whether the modifiers contain CONTROL.                  *)
(***************************************************************************)
Char(c) == [code |-> "Char", ch |-> c, control |-> FALSE]
Special(name) == [code |-> name, ch |-> 0, control |-> FALSE]
NoKey == Special("None")
\* the key event with the Control modifier held
Control(k) == [k EXCEPT !.control = TRUE]

IsChar(k, c) == k.code = "Char" /\ k.ch = c

\* the keys pressed in Normal mode: the bound keys, and as unbound keys
\* 'a', Esc, Enter and Backspace
NormalKeys ==
    {Char(c) : c \in {CharI, CharH, CharJ, CharK, CharL, CharZero,
                      CharDollar, CharQ, 97}}
      \cup {Special(n) : n \in {"Left", "Right", "Up", "Down", "Esc",
                                "Enter", "Backspace"}}

\* the keys pressed in Insert mode: the bound keys, and Tab as unbound key
InsertKeys ==
    {Char(c) : c \in TextChars}
      \cup {Special(n) : n \in {"Left", "Right", "Up", "Down", "Esc",
                                "Enter", "Backspace", "Tab"}}

(***************************************************************************)
(* Startup: Editor::new and Cursor::new.                                   *)
(***************************************************************************)
\* index of the first NewLine byte of b, or 0
FirstNewLine(b) ==
    IF \E i \in 1..Len(b) : b[i] = NewLine
    THEN CHOOSE i \in 1..Len(b) :
             b[i] = NewLine /\ \A j \in 1..(i - 1) : b[j] # NewLine
    ELSE 0

\* the line read up to a "\n", without the "\r" that ends it
StripCarriageReturn(l) ==
    IF Len(l) > 0 /\ l[Len(l)] = CarriageReturn
    THEN SubSeq(l, 1, Len(l) - 1)
    ELSE l

\* BufRead::lines over the bytes of a file: one item per line, the line
\* terminator stripped; a last line without terminator is kept as it is
RECURSIVE ReadLines(_)
ReadLines(b) ==
    IF b = <<>> THEN <<>>
    ELSE LET i == FirstNewLine(b) IN
         IF i = 0 THEN <<b>>
         ELSE <<StripCarriageReturn(SubSeq(b, 1, i - 1))>>
                  \o ReadLines(SubSeq(b, i + 1, Len(b)))

\* filter_map(Result::ok): a line that is not UTF-8 is an Err and is dropped
RECURSIVE FilterOk(_)
FilterOk(ls) ==
    IF ls = <<>> THEN <<>>
    ELSE (IF IsUtf8(Head(ls)) THEN <<Head(ls)>> ELSE <<>>)
             \o FilterOk(Tail(ls))

\* The startup inputs: no path; a path File::open fails on; a readable file.
\* The files: empty; "\n"; "a\n"; "a\n" + e-acute (no final terminator);
\* "q\r\n\na\n"; a line that is not UTF-8 followed by "a\n"; only such a line
Files ==
    { <<>>,
      <<10>>,
      <<97, 10>>,
      <<97, 10, 195, 169>>,
      <<113, 13, 10, 10, 97, 10>>,
      <<195, 10, 97, 10>>,
      <<169, 10>> }

Startups ==
    {[path |-> FALSE, opens |-> FALSE, bytes |-> <<>>],
     [path |-> TRUE, opens |-> FALSE, bytes |-> <<>>]}
      \cup {[path |-> TRUE, opens |-> TRUE, bytes |-> f] : f \in Files}

\* the startups the editing keys are explored from: no path, and a readable
\* empty file (every other buffer is reached from these by typing)
EditStartups ==
    {[path |-> FALSE, opens |-> FALSE, bytes |-> <<>>],
     [path |-> TRUE, opens |-> TRUE, bytes |-> <<>>]}

\* The paths: "f", the one given on the command line (args.get(1)), and
\* "g", the one typed at the filename prompt.
ArgPath == <<102>>
Paths == {ArgPath, <<103>>}
\* what disk holds under a path no file can be opened from
NoFile == <<-1>>

\* the file system Editor::new finds
DiskAtStart(start) ==
    [p \in Paths |->
        IF p = ArgPath /\ start.path /\ start.opens
        THEN start.bytes
        ELSE NoFile]

\* Editor::new without its default line: a file that cannot be opened leaves
\* an empty Vec
EditorNew_NoLine(start, clock) ==
    LET buffer_content ==
            IF start.path /\ start.opens
            THEN FilterOk(ReadLines(start.bytes))
            ELSE <<>>
    IN [buffer |-> [buffer_text |-> buffer_content,
                    buffer_name |-> IF start.path THEN ArgPath ELSE <<>>],
        cursor |-> [x |-> 0, y |-> 0, visible |-> TRUE, last_blink |-> clock],
        mode |-> "Normal"]

\* Editor::new(filename) with Cursor::new
EditorNew(start, clock) ==
    LET buffer_content ==
            IF start.path /\ start.opens
            THEN FilterOk(ReadLines(start.bytes))
            ELSE <<<<>>>>
    IN [buffer |-> [buffer_text |-> buffer_content,
                    buffer_name |-> IF start.path THEN ArgPath ELSE <<>>],
        cursor |-> [x |-> 0, y |-> 0, visible |-> TRUE, last_blink |-> clock],
        mode |-> "Normal"]

\* the editor as one value
Editor == [buffer |-> buffer, cursor |-> cursor, mode |-> mode]

\* a result of read_line: Ok with the line read (its terminator included; no
\* bytes at end of input), or Err; NoRead where nothing was read
Ok(line) == [res |-> "Ok", line |-> line]
Err == [res |-> "Err", line |-> <<>>]
NoRead == [res |-> "None", line |-> <<>>]

\* the input of a key step that reads no line and touches no file
NoInput == [command |-> NoRead, name |-> NoRead, create |-> "None",
            written |-> 0]

\* main up to the run loop: enable_raw_mode, Editor::new(args.get(1)),
\* should_quit = false
InitFrom(starts) ==
    /\ now = 0
    /\ \E start \in starts :
           LET e == EditorNew(start, 0) IN
           /\ buffer = e.buffer
           /\ cursor = e.cursor
           /\ mode = e.mode
           /\ disk = DiskAtStart(start)
    /\ key = NoKey
    /\ should_quit = FALSE
    /\ proc = "running"
    /\ raw_mode = TRUE
    /\ messages = <<>>
    /\ input = NoInput

Init == InitFrom(Startups)

InitEdit == InitFrom(EditStartups)

(***************************************************************************)
(* Key handlers, as functions of the editor e and the key.  The result is  *)
(* [ed, ret, panic]: the editor afterwards, the returned termination flag, *)
(* and whether the handler panicked (ed is then the editor as the panic    *)
(* left it).                                                               *)
(***************************************************************************)
Done(e) == [ed |-> e, ret |-> FALSE, panic |-> FALSE]
Quit(e) == [ed |-> e, ret |-> TRUE, panic |-> FALSE]
Panic(e) == [ed |-> e, ret |-> FALSE, panic |-> TRUE]

\* self.buffer.buffer_text[self.cursor.y] is in bounds
HasLine(e) == e.cursor.y < Len(e.buffer.buffer_text)
\* self.buffer.buffer_text[self.cursor.y]
CurLine(e) == e.buffer.buffer_text[e.cursor.y + 1]

(***************************************************************************)
(* Editor::handle_normal_key, one operator per match arm.                  *)
(* overflow_checks: the build panics on integer overflow (debug profile)   *)
(* instead of wrapping (release profile); it matters to `len() - 1` on an  *)
(* empty Vec only.                                                         *)
(***************************************************************************)
\* KeyCode::Char('i') sending the cursor to the start of the line
NormalKeyI_Home(e) ==
    Done([e EXCEPT !.mode = "Insert", !.cursor.x = 0])

\* KeyCode::Char('i')
NormalKeyI(e) ==
    Done([e EXCEPT !.mode = "Insert"])

\* KeyCode::Char('h') | KeyCode::Left taking the character before the
\* cursor with it
NormalKeyLeft_Deletes(e) ==
    IF e.cursor.x > 0 /\ HasLine(e)
    THEN Done([e EXCEPT
                 !.buffer.buffer_text[e.cursor.y + 1] =
                     SubSeq(@, 1, e.cursor.x - 1)
                         \o SubSeq(@, e.cursor.x + 1, Len(@)),
                 !.cursor.x = @ - 1])
    ELSE Done(e)

\* KeyCode::Char('h') | KeyCode::Left
NormalKeyLeft(e) ==
    IF e.cursor.x > 0
    THEN Done([e EXCEPT !.cursor.x = @ - 1])
    ELSE Done(e)

\* KeyCode::Char('j') | KeyCode::Down
NormalKeyDown(e, overflow_checks) ==
    IF Len(e.buffer.buffer_text) = 0
    THEN \* len() - 1 underflows: a panic, or usize::MAX and then y += 1
         \* and the index panics
         IF overflow_checks
         THEN Panic(e)
         ELSE Panic([e EXCEPT !.cursor.y = @ + 1])
    ELSE IF e.cursor.y < Len(e.buffer.buffer_text) - 1
    THEN LET e1 == [e EXCEPT !.cursor.y = @ + 1] IN
         IF ~HasLine(e1) THEN Panic(e1)
         ELSE LET line_len == Len(CurLine(e1)) IN
              IF e1.cursor.x > line_len
              THEN Done([e1 EXCEPT !.cursor.x = line_len])
              ELSE Done(e1)
    ELSE Done(e)

\* NormalKeyUp with the column left as it is on the new line
NormalKeyUp_NoClamp(e) ==
    IF e.cursor.y > 0
    THEN Done([e EXCEPT !.cursor.y = @ - 1])
    ELSE Done(e)

\* KeyCode::Char('k') | KeyCode::Up
NormalKeyUp(e) ==
    IF e.cursor.y > 0
    THEN LET e1 == [e EXCEPT !.cursor.y = @ - 1] IN
         IF ~HasLine(e1) THEN Panic(e1)
         ELSE LET line_len == Len(CurLine(e1)) IN
              IF e1.cursor.x > line_len
              THEN Done([e1 EXCEPT !.cursor.x = line_len])
              ELSE Done(e1)
    ELSE Done(e)

\* NormalKeyRight with `<=` for `<`
NormalKeyRight_PastEnd(e) ==
    IF ~HasLine(e) THEN Panic(e)
    ELSE IF e.cursor.x <= Len(CurLine(e))
    THEN Done([e EXCEPT !.cursor.x = @ + 1])
    ELSE Done(e)

\* KeyCode::Char('l') | KeyCode::Right
NormalKeyRight(e) ==
    IF ~HasLine(e) THEN Panic(e)
    ELSE IF e.cursor.x < Len(CurLine(e))
    THEN Done([e EXCEPT !.cursor.x = @ + 1])
    ELSE Done(e)

\* KeyCode::Char('0')
NormalKeyZero(e) ==
    Done([e EXCEPT !.cursor.x = 0])

\* KeyCode::Char('$') snapping one column further
NormalKeyDollar_Beyond(e) ==
    IF ~HasLine(e) THEN Panic(e)
    ELSE LET line_len == Len(CurLine(e)) IN
         Done([e EXCEPT !.cursor.x = IF line_len > 0 THEN line_len + 1 ELSE 0])

\* KeyCode::Char('$')
NormalKeyDollar(e) ==
    IF ~HasLine(e) THEN Panic(e)
    ELSE LET line_len == Len(CurLine(e)) IN
         Done([e EXCEPT !.cursor.x = IF line_len > 0 THEN line_len ELSE 0])

\* KeyCode::Char('q') falling into the `_` arm
NormalKeyQ_Stays(e) ==
    Done(e)

\* KeyCode::Char('q')
NormalKeyQ(e) ==
    Quit(e)

\* Editor::handle_normal_key.  The arm of KeyCode::Char(':'), the command
\* prompt, reads the terminal and writes files: it is no function of the
\* editor and the key, and ':' is not among the keys handled here.
HandleNormalKey(e, k, overflow_checks) ==
    CASE IsChar(k, CharI) -> NormalKeyI(e)
      [] IsChar(k, CharH) \/ k.code = "Left" -> NormalKeyLeft(e)
      [] IsChar(k, CharJ) \/ k.code = "Down" -> NormalKeyDown(e, overflow_checks)
      [] IsChar(k, CharK) \/ k.code = "Up" -> NormalKeyUp(e)
      [] IsChar(k, CharL) \/ k.code = "Right" -> NormalKeyRight(e)
      [] IsChar(k, CharZero) -> NormalKeyZero(e)
      [] IsChar(k, CharDollar) -> NormalKeyDollar(e)
      [] IsChar(k, CharQ) -> NormalKeyQ(e)
      [] OTHER -> Done(e)

(***************************************************************************)
(* Editor::handle_insert_key, one operator per match arm.                  *)
(***************************************************************************)
\* InsertKeyEsc without the adjustment of the column
InsertKeyEsc_NoAdjust(e) ==
    IF ~HasLine(e)
    THEN Panic([e EXCEPT !.mode = "Normal"])
    ELSE Done([e EXCEPT !.mode = "Normal"])

\* KeyCode::Esc
InsertKeyEsc(e) ==
    LET e1 == [e EXCEPT !.mode = "Normal"] IN
    IF ~HasLine(e) THEN Panic(e1)
    ELSE LET line_len == Len(CurLine(e)) IN
         IF line_len > 0 /\ e.cursor.x >= line_len
         THEN Done([e1 EXCEPT !.cursor.x = line_len - 1])
         ELSE Done(e1)

\* KeyCode::Char(c)
InsertKeyChar(e, c) ==
    IF ~HasLine(e) THEN Panic(e)
    ELSE IF e.cursor.x >= Len(CurLine(e))
    THEN Done([e EXCEPT
                 !.buffer.buffer_text[e.cursor.y + 1] = StringPush(@, c),
                 !.cursor.x = @ + 1])
    ELSE LET r == StringInsert(CurLine(e), e.cursor.x, c) IN
         IF r.ok
         THEN Done([e EXCEPT !.buffer.buffer_text[e.cursor.y + 1] = r.val,
                             !.cursor.x = @ + 1])
         ELSE Panic(e)

\* KeyCode::Backspace
InsertKeyBackspace(e) ==
    LET text == e.buffer.buffer_text
        y == e.cursor.y
    IN
    IF e.cursor.x > 0
    THEN IF ~HasLine(e) THEN Panic(e)
         ELSE LET r == StringRemove(CurLine(e), e.cursor.x - 1) IN
              IF r.ok
              THEN Done([e EXCEPT !.buffer.buffer_text[y + 1] = r.val,
                                  !.cursor.x = @ - 1])
              ELSE Panic(e)
    ELSE IF y > 0
    THEN IF ~HasLine(e) THEN Panic(e)
         ELSE LET current_line == CurLine(e)
                  text1 == VecRemove(text, y)
                  prev_len == Len(text1[y])
              IN Done([e EXCEPT
                         !.buffer.buffer_text =
                             [text1 EXCEPT ![y] = @ \o current_line],
                         !.cursor.y = y - 1,
                         !.cursor.x = prev_len])
    ELSE Done(e)

\* KeyCode::Enter
InsertKeyEnter(e) ==
    LET text == e.buffer.buffer_text
        y == e.cursor.y
    IN
    IF ~HasLine(e) THEN Panic(e)
    ELSE IF e.cursor.x < Len(CurLine(e))
    THEN LET r == StringSplitOff(CurLine(e), e.cursor.x) IN
         IF r.ok
         THEN Done([e EXCEPT
                      !.buffer.buffer_text =
                          VecInsert([text EXCEPT ![y + 1] = r.head],
                                    y + 1, r.tail),
                      !.cursor.y = y + 1,
                      !.cursor.x = 0])
         ELSE Panic(e)
    ELSE Done([e EXCEPT
                 !.buffer.buffer_text = VecInsert(text, y + 1, <<>>),
                 !.cursor.y = y + 1,
                 !.cursor.x = 0])

\* KeyCode::Left
InsertKeyLeft(e) ==
    IF e.cursor.x > 0
    THEN Done([e EXCEPT !.cursor.x = @ - 1])
    ELSE Done(e)

\* KeyCode::Right stopping on the last character
InsertKeyRight_Short(e) ==
    IF ~HasLine(e) THEN Panic(e)
    ELSE IF e.cursor.x + 1 < Len(CurLine(e))
    THEN Done([e EXCEPT !.cursor.x = @ + 1])
    ELSE Done(e)

\* KeyCode::Right
InsertKeyRight(e) ==
    IF ~HasLine(e) THEN Panic(e)
    ELSE IF e.cursor.x < Len(CurLine(e))
    THEN Done([e EXCEPT !.cursor.x = @ + 1])
    ELSE Done(e)

\* KeyCode::Up without the adjustment of the column
InsertKeyUp_NoClamp(e) ==
    IF e.cursor.y > 0
    THEN LET e1 == [e EXCEPT !.cursor.y = @ - 1] IN
         IF ~HasLine(e1) THEN Panic(e1) ELSE Done(e1)
    ELSE Done(e)

\* KeyCode::Up
InsertKeyUp(e) ==
    IF e.cursor.y > 0
    THEN LET e1 == [e EXCEPT !.cursor.y = @ - 1] IN
         IF ~HasLine(e1) THEN Panic(e1)
         ELSE LET line_len == Len(CurLine(e1)) IN
              IF e1.cursor.x > line_len
              THEN Done([e1 EXCEPT !.cursor.x = line_len])
              ELSE Done(e1)
    ELSE Done(e)

\* KeyCode::Down
InsertKeyDown(e, overflow_checks) ==
    IF Len(e.buffer.buffer_text) = 0
    THEN IF overflow_checks
         THEN Panic(e)
         ELSE Panic([e EXCEPT !.cursor.y = @ + 1])
    ELSE IF e.cursor.y < Len(e.buffer.buffer_text) - 1
    THEN LET e1 == [e EXCEPT !.cursor.y = @ + 1] IN
         IF ~HasLine(e1) THEN Panic(e1)
         ELSE LET line_len == Len(CurLine(e1)) IN
              IF e1.cursor.x > line_len
              THEN Done([e1 EXCEPT !.cursor.x = line_len])
              ELSE Done(e1)
    ELSE Done(e)

\* Editor::handle_insert_key
HandleInsertKey(e, k, overflow_checks) ==
    CASE k.code = "Esc" -> InsertKeyEsc(e)
      [] k.code = "Char" -> InsertKeyChar(e, k.ch)
      [] k.code = "Backspace" -> InsertKeyBackspace(e)
      [] k.code = "Enter" -> InsertKeyEnter(e)
      [] k.code = "Left" -> InsertKeyLeft(e)
      [] k.code = "Right" -> InsertKeyRight(e)
      [] k.code = "Up" -> InsertKeyUp(e)
      [] k.code = "Down" -> InsertKeyDown(e, overflow_checks)
      [] OTHER -> Done(e)

\* Editor::handle_keypress
HandleKeypressFn(e, k, overflow_checks) ==
    IF e.mode = "Normal"
    THEN HandleNormalKey(e, k, overflow_checks)
    ELSE HandleInsertKey(e, k, overflow_checks)

\* Blink with `>` for `>=`
Blink_Late(c, m, t) ==
    IF t - c.last_blink > BlinkInterval
    THEN IF m = "Normal"
         THEN [c EXCEPT !.visible = TRUE]
         ELSE [c EXCEPT !.visible = ~@, !.last_blink = t]
    ELSE c

\* Blink moving the column when it toggles
Blink_MovesCursor(c, m, t) ==
    IF t - c.last_blink >= BlinkInterval
    THEN IF m = "Normal"
         THEN [c EXCEPT !.visible = TRUE]
         ELSE [c EXCEPT !.visible = ~@, !.last_blink = t, !.x = @ + 1]
    ELSE c

\* Cursor::blink(mode) at the instant t
Blink(c, m, t) ==
    IF t - c.last_blink >= BlinkInterval
    THEN IF m = "Normal"
         THEN [c EXCEPT !.visible = TRUE]
         ELSE [c EXCEPT !.visible = ~@, !.last_blink = t]
    ELSE c

(***************************************************************************)
(* The ':' command prompt: Editor::prompt_and_execute_command and          *)
(* Editor::save_buffer.  They read lines from the terminal and create and  *)
(* write files: io is what they read and how the file system answered,     *)
(* [command, name, create, written], and d is the file system before.      *)
(***************************************************************************)
\* the white space str::trim takes off: tab, "\n", "\r" and the space
WhiteSpace == {9, 10, 13, 32}

RECURSIVE TrimStart(_)
TrimStart(s) ==
    IF s # <<>> /\ Head(s) \in WhiteSpace THEN TrimStart(Tail(s)) ELSE s

RECURSIVE TrimEnd(_)
TrimEnd(s) ==
    IF s # <<>> /\ s[Len(s)] \in WhiteSpace
    THEN TrimEnd(SubSeq(s, 1, Len(s) - 1))
    ELSE s

\* str::trim
Trim(s) == TrimEnd(TrimStart(s))

\* the commands the match of prompt_and_execute_command names: "w", "q", "wq"
CommandW == <<119>>
CommandQ == <<113>>
CommandWq == <<119, 113>>

\* what read_line gives at the ": " prompt: "w\n", "wq\n", "q\n", " x\n",
\* the end of the input, an error (of the terminal, or bytes that are no
\* UTF-8)
CommandReads ==
    {Ok(<<119, 10>>), Ok(<<119, 113, 10>>), Ok(<<113, 10>>),
     Ok(<<32, 120, 10>>), Ok(<<>>), Err}

\* what read_line gives at the "Enter filename: " prompt: " g\n", " \n",
\* an error
NameReads == {Ok(<<32, 103, 10>>), Ok(<<32, 10>>), Err}

\* the lines as `writeln!(file, "{}", line)` writes them one after another
RECURSIVE WriteLines(_)
WriteLines(ls) ==
    IF ls = <<>> THEN <<>>
    ELSE Head(ls) \o <<NewLine>> \o WriteLines(Tail(ls))

\* the head of save_buffer without the test for an empty name
SaveBufferName_AcceptsEmpty(e, io) ==
    IF e.buffer.buffer_name = <<>>
    THEN IF io.name.res # "Ok"
         THEN [ok |-> FALSE, ed |-> e, filename |-> <<>>,
               messages |-> <<"Failed to read filename.">>]
         ELSE LET trimmed_name == Trim(io.name.line) IN
              [ok |-> TRUE,
               ed |-> [e EXCEPT !.buffer.buffer_name = trimmed_name],
               filename |-> trimmed_name, messages |-> <<>>]
    ELSE [ok |-> TRUE, ed |-> e, filename |-> e.buffer.buffer_name,
          messages |-> <<>>]

\* The head of save_buffer: the filename to write to, asked for at the
\* "Enter filename: " prompt when the buffer has no name.  ok = FALSE is the
\* early return.
SaveBufferName(e, io) ==
    IF e.buffer.buffer_name = <<>>
    THEN IF io.name.res # "Ok"
         THEN [ok |-> FALSE, ed |-> e, filename |-> <<>>,
               messages |-> <<"Failed to read filename.">>]
         ELSE LET trimmed_name == Trim(io.name.line) IN
              IF trimmed_name = <<>>
              THEN [ok |-> FALSE, ed |-> e, filename |-> <<>>,
                    messages |-> <<"Filename cannot be empty!">>]
              ELSE [ok |-> TRUE,
                    ed |-> [e EXCEPT !.buffer.buffer_name = trimmed_name],
                    filename |-> trimmed_name, messages |-> <<>>]
    ELSE [ok |-> TRUE, ed |-> e, filename |-> e.buffer.buffer_name,
          messages |-> <<>>]

\* Editor::save_buffer.  File::create truncates the file; io.written lines
\* are written before a writeln! fails (all of them when none fails), and
\* the file keeps what was written.
SaveBuffer(e, d, io) ==
    LET n == SaveBufferName(e, io) IN
    IF ~n.ok
    THEN [ed |-> n.ed, disk |-> d, messages |-> n.messages]
    ELSE IF io.create = "Ok" /\ n.filename \in DOMAIN d
    THEN LET text == n.ed.buffer.buffer_text IN
         IF io.written < Len(text)
         THEN [ed |-> n.ed,
               disk |-> [d EXCEPT ![n.filename] =
                                      WriteLines(SubSeq(text, 1, io.written))],
               messages |-> <<"Failed to write to file.">>]
         ELSE [ed |-> [n.ed EXCEPT !.buffer.buffer_name = n.filename],
               disk |-> [d EXCEPT ![n.filename] = WriteLines(text)],
               messages |-> <<"File saved">>]
    ELSE [ed |-> n.ed, disk |-> d, messages |-> <<"Failed to create file">>]

\* the arms of the match on the trimmed command; exit: std::process::exit(0)
\* "w"
ExecuteW(e, d, io) ==
    LET s == SaveBuffer(e, d, io) IN
    [ed |-> s.ed, disk |-> s.disk, messages |-> s.messages, exit |-> FALSE]

\* "q"
ExecuteQ(e, d, io) ==
    [ed |-> e, disk |-> d, messages |-> <<>>, exit |-> TRUE]

\* "wq" leaving before it saves
ExecuteWq_ExitFirst(e, d, io) ==
    [ed |-> e, disk |-> d, messages |-> <<>>, exit |-> TRUE]

\* "wq" leaving only when the file was saved
ExecuteWq_StaysOnFailure(e, d, io) ==
    LET s == SaveBuffer(e, d, io) IN
    [ed |-> s.ed, disk |-> s.disk, messages |-> s.messages,
     exit |-> (s.messages = <<"File saved">>)]

\* "wq"
ExecuteWq(e, d, io) ==
    LET s == SaveBuffer(e, d, io) IN
    [ed |-> s.ed, disk |-> s.disk, messages |-> s.messages, exit |-> TRUE]

\* `_` taken for "q"
ExecuteUnknown_Exits(e, d, io) ==
    [ed |-> e, disk |-> d, messages |-> <<>>, exit |-> TRUE]

\* `_`
ExecuteUnknown(e, d, io) ==
    [ed |-> e, disk |-> d,
     messages |-> <<"Unsupported or unknown command">>, exit |-> FALSE]

\* Editor::prompt_and_execute_command: disable_raw_mode, read the command
\* (`unwrap` panics on an error), run it, enable_raw_mode.  raw_mode is the
\* terminal's mode where the function is left.
PromptAndExecuteCommand(e, d, io) ==
    IF io.command.res # "Ok"
    THEN [ed |-> e, disk |-> d, messages |-> <<>>, exit |-> FALSE,
          panic |-> TRUE, raw_mode |-> FALSE]
    ELSE LET command == Trim(io.command.line)
             c == CASE command = CommandW -> ExecuteW(e, d, io)
                    [] command = CommandQ -> ExecuteQ(e, d, io)
                    [] command = CommandWq -> ExecuteWq(e, d, io)
                    [] OTHER -> ExecuteUnknown(e, d, io)
         IN [ed |-> c.ed, disk |-> c.disk, messages |-> c.messages,
             exit |-> c.exit, panic |-> FALSE, raw_mode |-> ~c.exit]

\* KeyCode::Char(':') of handle_normal_key: the prompt, then false
NormalKeyColon(e, d, io) ==
    LET p == PromptAndExecuteCommand(e, d, io) IN
    [ed |-> p.ed, ret |-> FALSE, panic |-> p.panic, exit |-> p.exit,
     disk |-> p.disk, raw_mode |-> p.raw_mode, messages |-> p.messages]

\* this key event is what the run loop takes for Ctrl+C
IsCtrlC(k) == IsChar(k, CharC) /\ k.control

\* this key event reaches the ':' arm of handle_normal_key
IsCommandKey(e, k) ==
    ~IsCtrlC(k) /\ e.mode = "Normal" /\ IsChar(k, CharColon)

\* One turn of the run loop on the key event k: Ctrl+C sets should_quit,
\* every other key goes to handle_keypress, whose result becomes
\* should_quit.  The result is the editor, the flag (ret), the file system,
\* the terminal mode, what was printed, and how the turn ended otherwise
\* (panic, exit).
KeyEvent(e, d, raw, k, overflow_checks, io) ==
    IF IsCtrlC(k)
    THEN [ed |-> e, ret |-> TRUE, panic |-> FALSE, exit |-> FALSE,
          disk |-> d, raw_mode |-> raw, messages |-> <<>>]
    ELSE IF IsCommandKey(e, k)
    THEN NormalKeyColon(e, d, io)
    ELSE LET r == HandleKeypressFn(e, k, overflow_checks) IN
         [ed |-> r.ed, ret |-> r.ret, panic |-> r.panic, exit |-> FALSE,
          disk |-> d, raw_mode |-> raw, messages |-> <<>>]

\* io holds what the ':' command consumes, and nothing else: the name only
\* when the filename prompt is reached, the answer of File::create only
\* when it is called, lines written only when the file was created
Consumed(e, io) ==
    LET saves == /\ io.command.res = "Ok"
                 /\ Trim(io.command.line) \in {CommandW, CommandWq}
        asks == saves /\ e.buffer.buffer_name = <<>>
        creates == saves /\ SaveBufferName(e, io).ok
        writes == creates /\ io.create = "Ok"
    IN /\ io.command # NoRead
       /\ (io.name = NoRead) <=> ~asks
       /\ (io.create = "None") <=> ~creates
       /\ IF writes
          THEN io.written <= Len(e.buffer.buffer_text)
          ELSE io.written = 0

\* what the terminal and the file system can answer to the key k
Inputs(e, k) ==
    IF IsCommandKey(e, k)
    THEN {io \in [command : CommandReads,
                  name : NameReads \cup {NoRead},
                  create : {"Ok", "Err", "None"},
                  written : 0..MaxLines] : Consumed(e, io)}
    ELSE {NoInput}

(***************************************************************************)
(* Actions.                                                                *)
(***************************************************************************)
\* the bytes of the lines ls together
RECURSIVE TotalBytes(_)
TotalBytes(ls) ==
    IF ls = <<>> THEN 0 ELSE Len(Head(ls)) + TotalBytes(Tail(ls))

\* the buffer fits the bounds of the model
WithinBounds(b) ==
    /\ Len(b.buffer_text) <= MaxLines
    /\ TotalBytes(b.buffer_text) <= MaxBytes

\* the run loop is still going round
Running == ~should_quit /\ proc = "running"

\* the build profiles that differ in this state: integer overflow is within
\* reach on an empty Vec only
OverflowChecks == IF Len(buffer.buffer_text) = 0 THEN BOOLEAN ELSE {TRUE}

\* the run loop handles the key event k, the terminal and the file system
\* answering io
HandleKeyEvent(k, overflow_checks, io) ==
    \E r \in {KeyEvent(Editor, disk, raw_mode, k, overflow_checks, io)} :
    /\ WithinBounds(r.ed.buffer)
    /\ buffer' = r.ed.buffer
    /\ cursor' = r.ed.cursor
    /\ mode' = r.ed.mode
    /\ key' = k
    /\ should_quit' = r.ret
    /\ proc' = IF r.panic THEN "panicked"
               ELSE IF r.exit THEN "exited" ELSE "running"
    /\ disk' = r.disk
    /\ raw_mode' = r.raw_mode
    /\ messages' = r.messages
    /\ input' = io
    /\ UNCHANGED now

\* The run loop reads a key event and handles it.
HandleKeypress(keys) ==
    /\ Running
    /\ \E k \in keys, overflow_checks \in OverflowChecks :
           \E io \in Inputs(Editor, k) :
               HandleKeyEvent(k, overflow_checks, io)

KeyPress == HandleKeypress(IF mode = "Normal" THEN NormalKeys ELSE InsertKeys)

\* Editor::render: the blink tick, then the drawing, which changes nothing
\* of the editor and either succeeds or returns the error of a write to the
\* terminal, which the run loop returns from main.
Render ==
    /\ Running
    /\ cursor' = Blink(cursor, mode, now)
    /\ \E drawn \in BOOLEAN :
           proc' = IF drawn THEN "running" ELSE "failed"
    /\ UNCHANGED <<buffer, mode, now, key, should_quit,
                   disk, raw_mode, messages, input>>

\* Time passes between two steps of the run loop: the wait of event::poll,
\* up to PollTimeout, or longer (a blocked write, a descheduled process).
Tick ==
    /\ Running
    /\ \E d \in {PollTimeout, BlinkInterval} :
           /\ now + d <= MaxTime
           /\ now' = now + d
    /\ UNCHANGED <<buffer, cursor, mode, key, should_quit, proc,
                   disk, raw_mode, messages, input>>

\* the keys that switch the mode
ModeKeys == IF mode = "Normal" THEN {Char(CharI)} ELSE {Special("Esc")}

ModeKeyPress == HandleKeypress(ModeKeys)

(***************************************************************************)
\* The keys of the command prompt's specification.  Normal mode: ':', 'i',
\* 'q', '$', the unbound 'a' and Enter, Ctrl+C.  Insert mode: 'q', ':', Esc,
\* Ctrl+C.
CommandKeys ==
    IF mode = "Normal"
    THEN {Char(CharColon), Char(CharI), Char(CharQ), Char(CharDollar),
          Char(97), Special("Enter"), Control(Char(CharC))}
    ELSE {Char(CharQ), Char(CharColon), Special("Esc"), Control(Char(CharC))}

CommandKeyPress == HandleKeypress(CommandKeys)

(***************************************************************************)
(* Specifications.  Spec: the editor under every editing key, the clock    *)
(* standing still.  SpecBlink: the render tick under a running clock, with *)
(* the keys that switch the mode.  SpecCommand: the ':' command prompt and *)
(* Ctrl+C, from every startup, with the keys that reach them.              *)
(***************************************************************************)
Next == KeyPress

Spec == InitEdit /\ [][Next]_vars

NextBlink == Tick \/ Render \/ ModeKeyPress

SpecBlink == InitEdit /\ [][NextBlink]_vars

NextCommand == CommandKeyPress

SpecCommand == Init /\ [][NextCommand]_vars

(***************************************************************************)
(* Properties.                                                             *)
(***************************************************************************)
\* the lines of the buffer
Text == buffer.buffer_text

\* the cursor is on a line and at or before its end (lengths in bytes, as
\* String::len counts)
CursorOK ==
    /\ cursor.y < Len(Text)
    /\ cursor.x <= Len(Text[cursor.y + 1])

\* the line the cursor is on (when CursorOK)
Line == Text[cursor.y + 1]

\* this step is the run loop handling the key event it records, with the
\* input it records
KeyStep ==
    /\ Running
    /\ input' \in Inputs(Editor, key')
    /\ \E overflow_checks \in OverflowChecks :
           HandleKeyEvent(key', overflow_checks, input')

\* the keys that move the cursor, by mode: the arrows, and in Normal mode
\* h, j, k, l as well
IsLeft(k, m) == k.code = "Left" \/ (m = "Normal" /\ IsChar(k, CharH))
IsDown(k, m) == k.code = "Down" \/ (m = "Normal" /\ IsChar(k, CharJ))
IsUp(k, m) == k.code = "Up" \/ (m = "Normal" /\ IsChar(k, CharK))
IsRight(k, m) == k.code = "Right" \/ (m = "Normal" /\ IsChar(k, CharL))

\* C1. Cursor invariant: a key press in a state whose cursor is on a line of
\* the buffer and at or before that line's end leads to such a state again,
\* whatever the key and the mode.
C1_CursorInvariantKept ==
    [][(KeyStep /\ CursorOK) => CursorOK']_vars

\* C1 witness: Up has moved the cursor onto a shorter line than the one
\* below it, at that line's end.
C1_Witness ==
    /\ CursorOK
    /\ key.code = "Up"
    /\ cursor.y + 1 < Len(Text)
    /\ cursor.x = Len(Line)
    /\ Len(Text[cursor.y + 2]) > Len(Line)

\* C2. Buffer non-emptiness: the buffer holds at least one line in every
\* reachable state, from every startup input on.
C2_BufferNeverEmpty ==
    Len(Text) >= 1

\* C3. Insert-character: in Insert mode with the cursor at (x, y) on a line,
\* x at most the line's length, a Char(c) key makes line y its first x bytes,
\* then c, then the rest, moves the cursor to (x + 1, y) and leaves the other
\* lines, the number of lines and the mode as they were.
C3_InsertCharacter ==
    [][(KeyStep /\ mode = "Insert" /\ CursorOK /\ key'.code = "Char")
         => /\ buffer'.buffer_text =
                  [Text EXCEPT ![cursor.y + 1] =
                      SubSeq(@, 1, cursor.x) \o Utf8(key'.ch)
                          \o SubSeq(@, cursor.x + 1, Len(@))]
            /\ cursor'.x = cursor.x + 1
            /\ cursor'.y = cursor.y
            /\ mode' = mode]_vars

\* C3, where the code agrees with it: the same, for a cursor on a character
\* boundary of its line (every cursor of a text of one-byte characters).
C3_InsertCharacterOnBoundary ==
    [][(KeyStep /\ mode = "Insert" /\ CursorOK /\ key'.code = "Char"
          /\ IsCharBoundary(Line, cursor.x))
         => /\ buffer'.buffer_text =
                  [Text EXCEPT ![cursor.y + 1] =
                      SubSeq(@, 1, cursor.x) \o Utf8(key'.ch)
                          \o SubSeq(@, cursor.x + 1, Len(@))]
            /\ cursor'.x = cursor.x + 1
            /\ cursor'.y = cursor.y
            /\ mode' = mode
            /\ proc' = "running"]_vars

\* C4. Delete-backward: in Insert mode, Backspace at (x, y) with x > 0
\* removes the character at index x - 1 of line y (a character of one or two
\* bytes) and moves the cursor to (x - 1, y); with x = 0 and y > 0 it removes
\* line y, appends its text to line y - 1 and moves the cursor to (old length
\* of line y - 1, y - 1); with x = 0 and y = 0 it changes neither buffer nor
\* cursor.
C4_DeleteBackward ==
    [][(KeyStep /\ mode = "Insert" /\ CursorOK /\ key'.code = "Backspace")
         => IF cursor.x > 0
            THEN /\ \E w \in 1..2 :
                        buffer'.buffer_text =
                            [Text EXCEPT ![cursor.y + 1] =
                                SubSeq(@, 1, cursor.x - 1)
                                    \o SubSeq(@, cursor.x + w, Len(@))]
                 /\ cursor'.x = cursor.x - 1
                 /\ cursor'.y = cursor.y
            ELSE IF cursor.y > 0
            THEN /\ buffer'.buffer_text =
                        SubSeq(Text, 1, cursor.y - 1)
                            \o <<Text[cursor.y] \o Text[cursor.y + 1]>>
                            \o SubSeq(Text, cursor.y + 2, Len(Text))
                 /\ cursor'.x = Len(Text[cursor.y])
                 /\ cursor'.y = cursor.y - 1
            ELSE /\ buffer' = buffer
                 /\ cursor' = cursor]_vars

\* C4, where the code agrees with it: the same, when x = 0 or x - 1 is a
\* character boundary of the line; the character removed is the one that
\* starts at byte x - 1.
C4_DeleteBackwardOnBoundary ==
    [][(KeyStep /\ mode = "Insert" /\ CursorOK /\ key'.code = "Backspace"
          /\ (cursor.x > 0 => IsCharBoundary(Line, cursor.x - 1)))
         => /\ proc' = "running"
            /\ IF cursor.x > 0
               THEN /\ buffer'.buffer_text =
                           [Text EXCEPT ![cursor.y + 1] =
                               SubSeq(@, 1, cursor.x - 1)
                                   \o SubSeq(@, cursor.x + Utf8Width(@[cursor.x]),
                                             Len(@))]
                    /\ cursor'.x = cursor.x - 1
                    /\ cursor'.y = cursor.y
               ELSE IF cursor.y > 0
               THEN /\ buffer'.buffer_text =
                           SubSeq(Text, 1, cursor.y - 1)
                               \o <<Text[cursor.y] \o Text[cursor.y + 1]>>
                               \o SubSeq(Text, cursor.y + 2, Len(Text))
                    /\ cursor'.x = Len(Text[cursor.y])
                    /\ cursor'.y = cursor.y - 1
               ELSE /\ buffer' = buffer
                    /\ cursor' = cursor]_vars

\* the lines after Enter at byte x of line y: line y cut to its first x
\* bytes, the rest of it as a new line after it, the later lines shifted
SplitAt(ls, x, y) ==
    SubSeq(ls, 1, y)
        \o <<SubSeq(ls[y + 1], 1, x), SubSeq(ls[y + 1], x + 1, Len(ls[y + 1]))>>
        \o SubSeq(ls, y + 2, Len(ls))

\* C5. Split-line: in Insert mode, Enter at (x, y), x at most the length of
\* line y, cuts line y to its first x bytes, inserts the rest (empty when x
\* is the length) as a new line at index y + 1, shifts the later lines down
\* unchanged and moves the cursor to (0, y + 1).
C5_SplitLine ==
    [][(KeyStep /\ mode = "Insert" /\ CursorOK /\ key'.code = "Enter")
         => /\ buffer'.buffer_text = SplitAt(Text, cursor.x, cursor.y)
            /\ cursor'.x = 0
            /\ cursor'.y = cursor.y + 1]_vars

\* C5, where the code agrees with it: the same, for a cursor on a character
\* boundary of its line.
C5_SplitLineOnBoundary ==
    [][(KeyStep /\ mode = "Insert" /\ CursorOK /\ key'.code = "Enter"
          /\ IsCharBoundary(Line, cursor.x))
         => /\ buffer'.buffer_text = SplitAt(Text, cursor.x, cursor.y)
            /\ cursor'.x = 0
            /\ cursor'.y = cursor.y + 1
            /\ mode' = mode
            /\ proc' = "running"]_vars

\* the editor after the key k, handled in the state after this step
AfterNext(k) == HandleKeypressFn(Editor', k, TRUE)

\* C6. Split/join round trip: in Insert mode, with the cursor at (x, y), x
\* at most the length of line y, Enter is handled and Backspace right after
\* it gives back the lines and the cursor position there were before Enter.
C6_SplitJoinRoundTrip ==
    [][(KeyStep /\ mode = "Insert" /\ CursorOK /\ key'.code = "Enter")
         => /\ proc' = "running"
            /\ ~AfterNext(Special("Backspace")).panic
            /\ AfterNext(Special("Backspace")).ed.buffer = buffer
            /\ AfterNext(Special("Backspace")).ed.cursor.x = cursor.x
            /\ AfterNext(Special("Backspace")).ed.cursor.y = cursor.y]_vars

\* C6, where the code agrees with it: the same, for a cursor on a character
\* boundary of its line.
C6_SplitJoinRoundTripOnBoundary ==
    [][(KeyStep /\ mode = "Insert" /\ CursorOK /\ key'.code = "Enter"
          /\ IsCharBoundary(Line, cursor.x))
         => /\ proc' = "running"
            /\ ~AfterNext(Special("Backspace")).panic
            /\ AfterNext(Special("Backspace")).ed.buffer = buffer
            /\ AfterNext(Special("Backspace")).ed.cursor.x = cursor.x
            /\ AfterNext(Special("Backspace")).ed.cursor.y = cursor.y]_vars

\* C7. Edge movement is a no-op: in both modes, left at column 0, up at row
\* 0, right at the end of the current line and down on the last row leave
\* cursor, buffer and mode as they were, and the editor running.
C7_EdgeMovementNoOp ==
    [][(/\ KeyStep
        /\ \/ IsLeft(key', mode) /\ cursor.x = 0
           \/ IsUp(key', mode) /\ cursor.y = 0
           \/ IsRight(key', mode) /\ CursorOK /\ cursor.x = Len(Line)
           \/ IsDown(key', mode) /\ cursor.y = Len(Text) - 1)
         => /\ buffer' = buffer
            /\ cursor' = cursor
            /\ mode' = mode
            /\ should_quit' = FALSE
            /\ proc' = "running"]_vars

\* C7 witness: Right was pressed in Insert mode on the only line of the
\* buffer, which is empty: the cursor was at the end of the line (and at
\* column 0, at row 0 and on the last row), and is there still.
C7_Witness ==
    /\ Text = <<<<>>>>
    /\ cursor.x = 0 /\ cursor.y = 0
    /\ mode = "Insert"
    /\ key.code = "Right"
    /\ proc = "running"

\* C8. Escape in Insert mode sets the mode to Normal, leaves buffer and row
\* as they were, and changes the column only from the length of a non-empty
\* current line to that length minus one; afterwards the column is below
\* the length of the current line when that line is not empty.
C8_EscapeLeavesInsert ==
    [][(KeyStep /\ mode = "Insert" /\ key'.code = "Esc")
         => /\ mode' = "Normal"
            /\ buffer' = buffer
            /\ cursor'.y = cursor.y
            /\ cursor'.x = IF CursorOK /\ Len(Line) > 0 /\ cursor.x = Len(Line)
                           THEN Len(Line) - 1
                           ELSE cursor.x
            /\ (CursorOK /\ Len(Line) > 0) => cursor'.x < Len(Line)
            /\ CursorOK => proc' = "running"]_vars

\* C8 witness: Escape has left the cursor on the last character of a line
\* of two characters or more.
C8_Witness ==
    /\ mode = "Normal"
    /\ key.code = "Esc"
    /\ CursorOK
    /\ Len(Line) >= 2
    /\ cursor.x = Len(Line) - 1

\* C9. Normal mode never blinks: after every render tick performed in
\* Normal mode the cursor is visible, whatever it was before and however
\* little time has passed since the last toggle.
C9_NormalModeVisibleAfterRender ==
    [][(Render /\ mode = "Normal") => cursor'.visible]_vars

\* C9, what the code does: a render tick in Normal mode makes the cursor
\* visible only once a blink period has passed since the last toggle;
\* before that it leaves the cursor as it is.
C9_NormalModeVisibleAfterPeriod ==
    [][(Render /\ mode = "Normal")
         => /\ cursor'.visible =
                  (cursor.visible \/ now - cursor.last_blink >= BlinkInterval)
            /\ cursor'.last_blink = cursor.last_blink]_vars

\* C10. Insert-mode blink: a render tick in Insert mode flips visible and
\* sets the last-toggle time to the current time when the time since the
\* last toggle is at least the blink period, and otherwise leaves both as
\* they were; so a toggle is never less than a blink period after the one
\* before it.
C10_InsertModeBlink ==
    [][(Render /\ mode = "Insert")
         => IF now - cursor.last_blink >= BlinkInterval
            THEN /\ cursor'.visible = ~cursor.visible
                 /\ cursor'.last_blink = now
            ELSE /\ cursor'.visible = cursor.visible
                 /\ cursor'.last_blink = cursor.last_blink]_vars

\* C10 witness: the cursor was toggled to hidden just now in Insert mode, a
\* blink period or more after the toggle before.
C10_Witness ==
    /\ mode = "Insert"
    /\ ~cursor.visible
    /\ cursor.last_blink = now
    /\ now >= 2 * BlinkInterval

(***************************************************************************)
(* The run loop, the ':' command prompt and the save.                      *)
(***************************************************************************)
\* this step is the ':' key reaching prompt_and_execute_command, which read
\* the command line without error
CommandStep ==
    /\ KeyStep
    /\ IsCommandKey(Editor, key')
    /\ input'.command.res = "Ok"

\* the trimmed command of this step
Command == Trim(input'.command.line)

\* this step's save created the file and wrote every line
SaveSucceeds ==
    /\ input'.create = "Ok"
    /\ input'.written = Len(Text)

\* this step's save could not create the file, or a line write failed
SaveFails ==
    \/ input'.create = "Err"
    \/ input'.create = "Ok" /\ input'.written < Len(Text)

\* the path this step's save writes to: the bound name, or the name typed
\* at the filename prompt
SavePath ==
    IF buffer.buffer_name = <<>>
    THEN Trim(input'.name.line)
    ELSE buffer.buffer_name

\* C11. Ctrl+C suppression: a key event with code 'c' and the Control
\* modifier never terminates the editor: handling it in the run loop does
\* not set the quit flag, in either mode and any state.
C11_CtrlCDoesNotQuit ==
    [][(KeyStep /\ IsCtrlC(key')) => ~should_quit']_vars

\* C12. Termination flag: handle_keypress, when it returns, returns true
\* exactly when the mode is Normal and the key is 'q'; every other
\* (mode, key) pair returns false, 'q' in Insert mode (which inserts the
\* character) and ':' in Normal mode (when the command returns) included.
\* The first conjunct is the key handled in this step, the second every
\* editing key as handle_keypress would handle it in the state before.
C12_TerminationFlag ==
    [][KeyStep
         => /\ (~IsCtrlC(key') /\ proc' = "running")
                => (should_quit' <=> (mode = "Normal" /\ IsChar(key', CharQ)))
            /\ \A k \in NormalKeys \cup InsertKeys :
                   \A overflow_checks \in OverflowChecks :
                       LET r == HandleKeypressFn(Editor, k, overflow_checks) IN
                       ~r.panic
                           => (r.ret <=> (mode = "Normal" /\ IsChar(k, CharQ)))
       ]_vars

\* C12 witness: 'q' was pressed in Normal mode and the flag is set, on a
\* line that has a 'q' typed in Insert mode before the cursor.
C12_Witness ==
    /\ should_quit
    /\ proc = "running"
    /\ mode = "Normal"
    /\ IsChar(key, CharQ)
    /\ buffer.buffer_name = <<>>
    /\ CursorOK
    /\ Line = <<CharQ>>

\* C13. Unknown command: a command that after trimming is none of "w", "q",
\* "wq" prints the unsupported-command message, does not end the process,
\* writes no file, leaves text, name, cursor and mode as they were, and
\* returns to the run loop in raw mode with the flag false.
C13_UnknownCommand ==
    [][(CommandStep /\ Command \notin {CommandW, CommandQ, CommandWq})
         => /\ messages' = <<"Unsupported or unknown command">>
            /\ proc' = "running"
            /\ ~should_quit'
            /\ raw_mode'
            /\ disk' = disk
            /\ buffer' = buffer
            /\ cursor' = cursor
            /\ mode' = mode]_vars

\* C13 witness: the command " x" was entered at the prompt and the message
\* printed.
C13_Witness ==
    /\ IsChar(key, CharColon)
    /\ input.command = Ok(<<32, 120, 10>>)
    /\ messages = <<"Unsupported or unknown command">>
    /\ proc = "running"

\* C14. Save outcome and name binding: a `w` whose save succeeds binds the
\* buffer's name to the path written; a `w` whose save fails (the file
\* cannot be created, or a line write fails) prints a failure message,
\* does not end the process, and leaves text and name exactly as they were
\* before the save, also when the name was entered at the filename prompt.
C14_SaveOutcome ==
    [][(CommandStep /\ Command = CommandW)
         => /\ SaveSucceeds
                => /\ buffer'.buffer_name = SavePath
                   /\ buffer'.buffer_text = Text
            /\ SaveFails
                => /\ messages' \in {<<"Failed to create file">>,
                                     <<"Failed to write to file.">>}
                   /\ proc' = "running"
                   /\ buffer' = buffer]_vars

\* C14, for a buffer that has a name: the claim as it stands.
C14_SaveOutcomeNamed ==
    [][(CommandStep /\ Command = CommandW /\ buffer.buffer_name # <<>>)
         => /\ SaveSucceeds
                => /\ buffer'.buffer_name = SavePath
                   /\ buffer'.buffer_text = Text
            /\ SaveFails
                => /\ messages' \in {<<"Failed to create file">>,
                                     <<"Failed to write to file.">>}
                   /\ proc' = "running"
                   /\ buffer' = buffer]_vars

\* C15. Empty filename aborts the save: with no name bound and a name
\* entered that is empty after trimming, `w` prints the message, creates
\* and writes no file, leaves the name unset and the text unchanged, and
\* editing resumes.
C15_EmptyFilename ==
    [][(/\ CommandStep
        /\ Command = CommandW
        /\ buffer.buffer_name = <<>>
        /\ input'.name.res = "Ok"
        /\ Trim(input'.name.line) = <<>>)
         => /\ messages' = <<"Filename cannot be empty!">>
            /\ disk' = disk
            /\ buffer' = buffer
            /\ buffer'.buffer_name = <<>>
            /\ cursor' = cursor
            /\ mode' = mode
            /\ proc' = "running"
            /\ ~should_quit'
            /\ raw_mode']_vars

\* C15 witness: `w` on a buffer without name, " \n" entered as the name.
C15_Witness ==
    /\ IsChar(key, CharColon)
    /\ input.command = Ok(<<119, 10>>)
    /\ input.name = Ok(<<32, 10>>)
    /\ buffer.buffer_name = <<>>
    /\ messages = <<"Filename cannot be empty!">>
    /\ proc = "running"

\* C16. `wq` persists, then terminates: for a buffer with a bound name whose
\* file can be created and written, `wq` leaves the file holding the lines
\* in order, each followed by one line terminator, and the process exited:
\* the process never exits on `wq` with the file not written.
C16_WqSavesThenExits ==
    [][(/\ CommandStep
        /\ Command = CommandWq
        /\ buffer.buffer_name # <<>>
        /\ SaveSucceeds)
         => /\ proc' = "exited"
            /\ disk'[buffer.buffer_name] = WriteLines(Text)
            /\ \A p \in Paths \ {buffer.buffer_name} : disk'[p] = disk[p]]_vars

\* C16 witness: the process exited on `wq` with a buffer of three lines,
\* the first typed into, and the file holds the three lines, a "\n" after
\* each.
C16_Witness ==
    /\ proc = "exited"
    /\ Trim(input.command.line) = CommandWq
    /\ buffer.buffer_name = ArgPath
    /\ Text = <<<<CharQ, CharQ>>, <<>>, <<97>>>>
    /\ disk[ArgPath] = <<CharQ, CharQ, NewLine, NewLine, 97, NewLine>>

\* C17. Load/save round trip: for a file of N lines, N >= 0, creating the
\* editor from it and saving at once with `w`, the save succeeding, writes
\* a file of the same N lines in the same order.
C17_LoadSaveRoundTrip ==
    [][(/\ key = NoKey
        /\ disk[ArgPath] # NoFile
        /\ CommandStep
        /\ Command = CommandW
        /\ SaveSucceeds)
         => ReadLines(disk'[ArgPath]) = ReadLines(disk[ArgPath])]_vars

\* C17, for a file whose lines are all UTF-8: the claim as it stands.
C17_LoadSaveRoundTripUtf8 ==
    [][(/\ key = NoKey
        /\ disk[ArgPath] # NoFile
        /\ \A i \in 1..Len(ReadLines(disk[ArgPath])) :
               IsUtf8(ReadLines(disk[ArgPath])[i])
        /\ CommandStep
        /\ Command = CommandW
        /\ SaveSucceeds)
         => ReadLines(disk'[ArgPath]) = ReadLines(disk[ArgPath])]_vars

\* C18. Missing or unreadable file at startup: a path that cannot be opened
\* gives no error and a buffer of exactly one empty line, the cursor at
\* (0, 0), mode Normal: the buffer a startup without path gives.
C18_UnopenableFile ==
    (key = NoKey /\ buffer.buffer_name = ArgPath /\ disk[ArgPath] = NoFile)
        => /\ Text = <<<<>>>>
           /\ Text = EditorNew([path |-> FALSE, opens |-> FALSE,
                                bytes |-> <<>>], 0).buffer.buffer_text
           /\ cursor.x = 0
           /\ cursor.y = 0
           /\ mode = "Normal"
           /\ proc = "running"

\* C18 witness: the state after construction from a path that cannot be
\* opened.
C18_Witness ==
    /\ key = NoKey
    /\ buffer.buffer_name = ArgPath
    /\ disk[ArgPath] = NoFile
    /\ Len(Text) = 1

\* C19. Render frame condition: a render pass changes nothing of the editor
\* but the blink state (visible, last_blink): lines, name, cursor x and y
\* and mode are after it what they were before, in either mode, whether or
\* not render returns an error.
C19_RenderFrame ==
    [][Render => /\ buffer' = buffer
                 /\ cursor'.x = cursor.x
                 /\ cursor'.y = cursor.y
                 /\ mode' = mode]_vars

\* C19 witness: a render pass in Insert mode hid the cursor and then
\* returned an error.
C19_Witness ==
    /\ proc = "failed"
    /\ mode = "Insert"
    /\ ~cursor.visible
    /\ cursor.last_blink = now

Min(a, b) == IF a < b THEN a ELSE b

\* C21. Vertical movement with clamping: in both modes, Down when y is not
\* the last row sets y to y + 1 and Up when y > 0 sets y to y - 1, and the
\* new column is min(old x, length of the new current line); the buffer and
\* the mode are unchanged.
C21_VerticalMovement ==
    [][KeyStep
         => /\ (IsDown(key', mode) /\ cursor.y + 1 < Len(Text))
                => /\ proc' = "running"
                   /\ cursor'.y = cursor.y + 1
                   /\ cursor'.x = Min(cursor.x, Len(Text[cursor.y + 2]))
                   /\ buffer' = buffer
                   /\ mode' = mode
            /\ (IsUp(key', mode) /\ cursor.y > 0)
                => /\ proc' = "running"
                   /\ cursor'.y = cursor.y - 1
                   /\ cursor'.x = Min(cursor.x, Len(Text[cursor.y]))
                   /\ buffer' = buffer
                   /\ mode' = mode]_vars

\* C21 witness: Up in Insert mode came from the end of a longer line to the
\* end of a shorter, non-empty line.
C21_Witness ==
    /\ mode = "Insert"
    /\ key.code = "Up"
    /\ Len(Text) = 2
    /\ cursor.y = 0
    /\ Len(Text[1]) = 1
    /\ Len(Text[2]) = 2
    /\ cursor.x = 1

\* C22. Mode transitions: the mode changes from Normal to Insert only on
\* 'i', which leaves cursor and buffer unchanged, and from Insert to Normal
\* only on Escape; every other key in either mode leaves the mode
\* unchanged.  The first three conjuncts are the key handled in this step
\* (the ':' command key and Ctrl+C among them), the last every editing key
\* as handle_keypress would handle it in the state before.
C22_ModeTransitions ==
    [][KeyStep
         => /\ mode' # mode
                => \/ mode = "Normal" /\ IsChar(key', CharI)
                   \/ mode = "Insert" /\ key'.code = "Esc"
            /\ (mode = "Normal" /\ IsChar(key', CharI))
                => /\ mode' = "Insert"
                   /\ buffer' = buffer
                   /\ cursor' = cursor
            /\ (mode = "Insert" /\ key'.code = "Esc") => mode' = "Normal"
            /\ \A k \in NormalKeys \cup InsertKeys :
                   \A overflow_checks \in OverflowChecks :
                       LET r == HandleKeypressFn(Editor, k, overflow_checks) IN
                       /\ r.ed.mode # mode
                           => \/ mode = "Normal" /\ IsChar(k, CharI)
                              \/ mode = "Insert" /\ k.code = "Esc"
                       /\ (mode = "Normal" /\ IsChar(k, CharI))
                           => /\ r.ed.mode = "Insert"
                              /\ r.ed.buffer = buffer
                              /\ r.ed.cursor = cursor
       ]_vars

\* C22 witness: 'i' entered Insert mode with the cursor past the start of a
\* line.
C22_Witness ==
    /\ mode = "Insert"
    /\ IsChar(key, CharI)
    /\ CursorOK
    /\ cursor.x > 0

\* the arrow keys
Arrows == {Special(n) : n \in {"Left", "Right", "Up", "Down"}}

\* C23. Insert-mode arrow keys mirror Normal-mode movement: from every
\* buffer and cursor, each of Left, Right, Up, Down pressed in Insert mode
\* gives the cursor position and the (unchanged) buffer that the key gives
\* in Normal mode, and the mode stays Insert.
C23_InsertArrowsMirrorNormal ==
    \A k \in Arrows, overflow_checks \in OverflowChecks :
        LET ins == HandleKeypressFn([Editor EXCEPT !.mode = "Insert"], k,
                                    overflow_checks)
            nor == HandleKeypressFn([Editor EXCEPT !.mode = "Normal"], k,
                                    overflow_checks)
        IN /\ ins.ed.cursor.x = nor.ed.cursor.x
           /\ ins.ed.cursor.y = nor.ed.cursor.y
           /\ ins.ed.buffer = buffer
           /\ nor.ed.buffer = buffer
           /\ ins.ed.mode = "Insert"
           /\ ins.panic = nor.panic
           /\ ins.ret = nor.ret

\* C23 witness: Right in Insert mode moved the cursor onto the last
\* character of a line, from where the keys go on differently only if the
\* two modes differ.
C23_Witness ==
    /\ mode = "Insert"
    /\ key.code = "Right"
    /\ CursorOK
    /\ Len(Line) = 2
    /\ cursor.x = 1

(***************************************************************************)
(* The command prompt: terminal mode, text, termination.                   *)
(***************************************************************************)
\* C24. Command-prompt input-mode restoration: on every path by which the
\* ':' prompt is left other than the exit of `q` and `wq` (the command `w`,
\* unknown commands, failed or aborted saves, a failed read of the command
\* line) control returns to the run loop with raw mode enabled again.
C24_RawModeRestored ==
    [][(/\ KeyStep
        /\ IsCommandKey(Editor, key')
        /\ ~(/\ input'.command.res = "Ok"
              /\ Command \in {CommandQ, CommandWq}))
         => (proc' = "running" /\ raw_mode')]_vars

\* C24, its last clause, which holds: the run loop never polls keys with
\* raw mode disabled.
C24_RunLoopPollsInRawMode ==
    Running => raw_mode

\* C25. Normal mode never edits text: no key pressed in Normal mode, the
\* ':' command key with any command included, changes the sequence of
\* lines or a line; the lines change only through a character key,
\* Backspace or Enter in Insert mode.  The first two conjuncts are the key
\* handled in this step, the last every editing key as handle_keypress
\* would handle it in the state before.
C25_NormalModeNeverEdits ==
    [][KeyStep
         => /\ mode = "Normal" => buffer'.buffer_text = Text
            /\ buffer'.buffer_text # Text
                => /\ mode = "Insert"
                   /\ key'.code \in {"Char", "Backspace", "Enter"}
            /\ \A k \in NormalKeys \cup InsertKeys :
                   \A overflow_checks \in OverflowChecks :
                       LET r == HandleKeypressFn(Editor, k, overflow_checks) IN
                       r.ed.buffer.buffer_text # Text
                           => /\ mode = "Insert"
                              /\ k.code \in {"Char", "Backspace", "Enter"}
       ]_vars

\* C25 witness: `w` in Normal mode saved a line typed in Insert mode, and
\* the cursor has been moved past the start of it.
C25_Witness ==
    /\ mode = "Normal"
    /\ IsChar(key, CharColon)
    /\ messages = <<"File saved">>
    /\ Text = <<<<CharQ>>>>
    /\ cursor.x = 1

\* C26. `wq` terminates regardless of the save outcome: after the `wq`
\* command the process has always exited, also when the save did not
\* happen or failed (empty filename, filename read failure, file creation
\* failure, line write failure); where no file was created the file system
\* is as before, so what the buffer held is gone.
C26_WqAlwaysExits ==
    [][(CommandStep /\ Command = CommandWq)
         => /\ proc' = "exited"
            /\ input'.create # "Ok" => disk' = disk]_vars

\* C26 witness: the process exited on `wq` with a typed line in a buffer
\* without name, the name entered being empty, and no file on disk.
C26_Witness ==
    /\ proc = "exited"
    /\ Trim(input.command.line) = CommandWq
    /\ messages = <<"Filename cannot be empty!">>
    /\ Text = <<<<CharQ>>>>
    /\ \A p \in Paths : disk[p] = NoFile

=============================================================================
